---- MODULE Spec2Model ----
(***************************************************************************)
(* A model of src/src/orbits/sim.py: class SimRun, a fixed-step Newtonian  *)
(* N-body integrator.  The constructor derives the step count, add_object  *)
(* registers a body with its trajectory array, run() fills the arrays.     *)
(*                                                                         *)
(* Numbers.  The program computes in IEEE doubles.  The model computes in  *)
(* the whole numbers among them: every input is a whole number, a product  *)
(* or sum of whole numbers is whole, and a quotient or square root is      *)
(* truncated toward zero.  NaN is kept as a value of its own, because the  *)
(* program produces it (0.0/0.0 in numpy) and hands it on.                 *)
(***************************************************************************)
EXTENDS Integers, Sequences, FiniteSets, TLC

VARIABLES
    phase,      \* "new" | "idle" | "running" | "failed": where the caller is
    err,        \* the exception the last call raised, or "none"
    dt,         \* self.dt: a time Quantity [val, unit] in time_unit
    n_steps,    \* self.n_steps
    maxtime,    \* self.maxtime: a Quantity [val, unit]
    len_unit,   \* self.len_unit
    time_unit,  \* self.time_unit
    mass_unit,  \* self.mass_unit
    G,          \* self.G.value, in len_unit^3 / (mass_unit * time_unit^2)
    objects,    \* self.objects: a sequence of dicts [name, mass, radius, pvt]
    i,          \* run(): the step index of the outer loop
    oi,         \* run(): the index in self.objects of obj
    si,         \* run(): the index in self.objects of src
    a,          \* run(): the acceleration accumulated for obj
    req,        \* history: the arguments the constructor was called with
    supplied,   \* history: per body, the arguments add_object was called with
    processed,  \* history: per body, the steps run() has committed, ever
    written,    \* history: <<body, slot>> written during the current run() call
    reads,      \* history: <<step, body, slot>> read during the current run() call
    terms,      \* history: the bodies whose term was added to a, for obj at step i
    runs,       \* history: the run() calls that have returned or raised
    snap        \* history: self.objects as the first run() call after the last
                \*          add_object left it, and the run() calls since

vars == <<phase, err, dt, n_steps, maxtime, len_unit, time_unit, mass_unit, G,
          objects, i, oi, si, a, req, supplied, processed, written, reads,
          terms, runs, snap>>

(***************************************************************************)
(* Bounds of the model.                                                    *)
(***************************************************************************)
MaxTime == 10       \* the longest requested maxtime, in seconds
MaxObjects == 2     \* add_object calls per simulation
MaxRuns == 2        \* run() calls per simulation

(***************************************************************************)
(* astropy units: each unit has a physical kind and a scale to the base    *)
(* unit of its kind.  The base mass unit is the petagram, in which the     *)
(* gravitational constant is a number of ordinary size.                    *)
(***************************************************************************)
UnitKind(un) ==
    CASE un \in {"s", "min"} -> "time"
      [] un \in {"m", "km"} -> "length"
      [] OTHER -> "mass"

UnitScale(un) ==
    CASE un = "min" -> 60
      [] un = "km" -> 1000
      [] OTHER -> 1

\* astropy.constants.G, 6.6743e-11 m^3 / (kg s^2), is 66.743 m^3 / (Pg s^2).
G_SI == 67

Quantity(val, un) == [val |-> val, unit |-> un]

\* Quantity.to(unit) is possible only between units of one kind.
Convertible(q, un) == UnitKind(q.unit) = UnitKind(un)

\* Quantity.to(unit).value as a fraction num/den.
ToValue(q, un) == [num |-> q.val * UnitScale(q.unit), den |-> UnitScale(un)]

IsWhole(f) == f.num % f.den = 0

Whole(f) == f.num \div f.den

\* The value of a quantity in base units, for comparing quantities.
InBase(q) == q.val * UnitScale(q.unit)

(***************************************************************************)
(* SimRun.__init__                                                         *)
(***************************************************************************)
Abs(x) == IF x < 0 THEN -x ELSE x

\* Mutant of Ceil: math.floor in its place.
CeilAsFloor(num, den) ==
    LET n == IF den < 0 THEN -num ELSE num
        d == Abs(den)
    IN  n \div d

\* math.ceil(num/den) for den # 0.
Ceil(num, den) ==
    LET n == IF den < 0 THEN -num ELSE num
        d == Abs(den)
    IN  IF n % d = 0 THEN n \div d ELSE (n \div d) + 1

\* Mutant of StepCount: no slot reserved for the initial values.
StepCountNoInitialSlot(mt, d) == Ceil(mt.num, mt.den * d)

\* line 28: math.ceil(maxtime.to(time_unit).value / self.dt.value) + 1,
\* for maxtime.to(time_unit).value = mt.num/mt.den and self.dt.value = d # 0.
StepCount(mt, d) == Ceil(mt.num, mt.den * d) + 1

\* line 31: dt * (self.n_steps - 1), with the dt the caller passed.
ActualMaxtime(d, n) == Quantity(d.val * (n - 1), d.unit)

\* line 36: const.G.to(len_unit^3 / (mass_unit * time_unit^2)).value
GValue(lu, tu, mu) ==
    (G_SI * UnitScale(mu) * UnitScale(tu) * UnitScale(tu))
        \div (UnitScale(lu) * UnitScale(lu) * UnitScale(lu))

\* The exception lines 24-28 raise, or "none".
InitError(d, mt, tu) ==
    IF ~Convertible(d, tu) THEN "UnitConversionError"        \* line 24
    ELSE IF ~Convertible(mt, tu) THEN "UnitConversionError"  \* line 28
    ELSE IF d.val = 0 THEN
        \* numpy float division by zero gives inf or nan; math.ceil refuses both
        IF mt.val = 0 THEN "ValueError" ELSE "OverflowError"
    ELSE "none"

DtInputs ==
    {Quantity(v, "s") : v \in {-1, 0, 1, 2}}
        \cup {Quantity(1, "min"), Quantity(1, "m")}

MaxtimeInputs ==
    {Quantity(v, "s") : v \in {0, 1, 3, MaxTime}}
        \cup {Quantity(1, "min"), Quantity(1, "Pg")}

LenUnits == {"m"}
TimeUnits == {"s", "min"}
MassUnits == {"Pg"}

NoQuantity == Quantity(0, "s")
NoRequest == [dt |-> NoQuantity, maxtime |-> NoQuantity]
NoSnap == [valid |-> FALSE, objs |-> <<>>, calls |-> 0]

Init ==
    /\ phase = "new"
    /\ err = "none"
    /\ dt = NoQuantity
    /\ n_steps = 0
    /\ maxtime = NoQuantity
    /\ len_unit = "m"
    /\ time_unit = "s"
    /\ mass_unit = "Pg"
    /\ G = 0
    /\ objects = <<>>
    /\ i = 0
    /\ oi = 0
    /\ si = 0
    /\ a = <<>>
    /\ req = NoRequest
    /\ supplied = <<>>
    /\ processed = <<>>
    /\ written = {}
    /\ reads = {}
    /\ terms = {}
    /\ runs = 0
    /\ snap = NoSnap

\* SimRun(dt, maxtime, len_unit, time_unit, mass_unit) raises.
ConstructRaises ==
    /\ phase = "new"
    /\ \E d \in DtInputs, mt \in MaxtimeInputs, tu \in TimeUnits :
         /\ InitError(d, mt, tu) # "none"
         /\ phase' = "failed"
         /\ err' = InitError(d, mt, tu)
         /\ req' = [dt |-> d, maxtime |-> mt]
    /\ UNCHANGED <<dt, n_steps, maxtime, len_unit, time_unit, mass_unit, G,
                   objects, i, oi, si, a, supplied, processed, written, reads,
                   terms, runs, snap>>

\* SimRun(dt, maxtime, len_unit, time_unit, mass_unit) returns.
Construct ==
    /\ phase = "new"
    /\ \E d \in DtInputs, mt \in MaxtimeInputs,
          lu \in LenUnits, tu \in TimeUnits, mu \in MassUnits :
         /\ InitError(d, mt, tu) = "none"
         /\ IsWhole(ToValue(d, tu))
         /\ LET sdt == Quantity(Whole(ToValue(d, tu)), tu)
                n == StepCount(ToValue(mt, tu), sdt.val)
            IN  /\ n <= MaxTime + 1
                /\ dt' = sdt
                /\ n_steps' = n
                /\ maxtime' = ActualMaxtime(d, n)
         /\ len_unit' = lu
         /\ time_unit' = tu
         /\ mass_unit' = mu
         /\ G' = GValue(lu, tu, mu)
         /\ req' = [dt |-> d, maxtime |-> mt]
    /\ objects' = <<>>
    /\ phase' = "idle"
    /\ err' = "none"
    /\ UNCHANGED <<i, oi, si, a, supplied, processed, written, reads, terms,
                   runs, snap>>

(***************************************************************************)
(* Floating-point values: a whole number, or NaN.                          *)
(***************************************************************************)
NaN == [nan |-> TRUE, v |-> 0]

Fin(x) == [nan |-> FALSE, v |-> x]

Add(x, y) == IF x.nan \/ y.nan THEN NaN ELSE Fin(x.v + y.v)

Sub(x, y) == IF x.nan \/ y.nan THEN NaN ELSE Fin(x.v - y.v)

\* The product of a value and a whole scalar (NaN * 0 is NaN).
Scale(x, k) == IF x.nan THEN NaN ELSE Fin(x.v * k)

\* Truncating division of whole numbers, d > 0.
TDiv(n, d) == IF n < 0 THEN -((-n) \div d) ELSE n \div d

\* A value divided by a whole scalar k > 0.
Over(x, k) == IF x.nan THEN NaN ELSE Fin(TDiv(x.v, k))

Vec(x, y, z) == <<Fin(x), Fin(y), Fin(z)>>

ZeroVec == Vec(0, 0, 0)

NaNVec == <<NaN, NaN, NaN>>

VAdd(p, q) == [k \in 1..3 |-> Add(p[k], q[k])]

VSub(p, q) == [k \in 1..3 |-> Sub(p[k], q[k])]

VScale(p, c) == [k \in 1..3 |-> Scale(p[k], c)]

VOver(p, c) == [k \in 1..3 |-> Over(p[k], c)]

HasNaN(p) == \E k \in 1..3 : p[k].nan

RECURSIVE SqrtIter(_, _)
SqrtIter(n, x) ==
    LET y == (x + (n \div x)) \div 2
    IN  IF y >= x THEN x ELSE SqrtIter(n, y)

\* np.sqrt of a whole number n >= 0, truncated.
ISqrt(n) == IF n < 2 THEN n ELSE SqrtIter(n, n)

(***************************************************************************)
(* SimRun.add_object                                                       *)
(***************************************************************************)
\* A velocity Quantity: val in unit/per.
Velocity(val, un, per) == [val |-> val, unit |-> un, per |-> per]

VelConvertible(q, lu, tu) ==
    UnitKind(q.unit) = UnitKind(lu) /\ UnitKind(q.per) = UnitKind(tu)

\* q.to(len_unit/time_unit).value as a fraction.
VelToValue(q, lu, tu) ==
    [num |-> q.val * UnitScale(q.unit) * UnitScale(tu),
     den |-> UnitScale(q.per) * UnitScale(lu)]

\* The arguments of one add_object call: name, (x0, y0, z0), (vx0, vy0, vz0),
\* m, r.
Body(name, un, x, y, z, vx, vy, vz, m, mun, r) ==
    [name |-> name,
     p |-> <<Quantity(x, un), Quantity(y, un), Quantity(z, un)>>,
     v |-> <<Velocity(vx, "m", "s"), Velocity(vy, "m", "s"),
             Velocity(vz, "m", "s")>>,
     m |-> Quantity(m, mun),
     r |-> Quantity(r, "m")]

BodyInputs ==
    { Body("probe", "m", 0, 0, 0, 1, 0, 0, 0, "Pg", 1),
      Body("dust", "m", 4, 0, 0, -1, 0, 0, 0, "Pg", 1),
      Body("rock", "m", 3, 0, 0, 0, 0, 0, 2, "Pg", 1),
      Body("rock", "m", 0, 4, 0, 0, 0, 0, 2, "Pg", 1),
      Body("twin", "m", 3, 0, 0, 0, 1, 0, 1, "Pg", 1),
      Body("far", "km", 1, 0, 0, 0, 0, 0, 3, "Pg", 2),
      Body("bad", "m", 1, 1, 1, 0, 0, 0, 1, "m", 1) }

\* One record of SimRun.datatype.
Record(p, v, t) == [p |-> p, v |-> v, t |-> t]

ZeroRecord == Record(ZeroVec, ZeroVec, 0)

\* The exception lines 47-65 raise for arguments b, or "none".
AddError(b) ==
    IF n_steps < 0 THEN "ValueError"                         \* np.zeros, line 47
    ELSE IF ~Convertible(b.p[1], len_unit) THEN "UnitConversionError"
    ELSE IF n_steps = 0 THEN "IndexError"                    \* pvt[0], line 54
    ELSE IF \/ \E k \in 1..3 : ~Convertible(b.p[k], len_unit)
            \/ \E k \in 1..3 : ~VelConvertible(b.v[k], len_unit, time_unit)
            \/ ~Convertible(b.m, mass_unit)
            \/ ~Convertible(b.r, len_unit)
         THEN "UnitConversionError"
    ELSE "none"

\* The model holds whole numbers only.
WholeBody(b) ==
    /\ \A k \in 1..3 : IsWhole(ToValue(b.p[k], len_unit))
    /\ \A k \in 1..3 : IsWhole(VelToValue(b.v[k], len_unit, time_unit))
    /\ IsWhole(ToValue(b.m, mass_unit))
    /\ IsWhole(ToValue(b.r, len_unit))

\* Mutant of InitialRecord: the given numbers stored without conversion.
InitialRecordUnconverted(b) ==
    Record([k \in 1..3 |-> Fin(b.p[k].val)], [k \in 1..3 |-> Fin(b.v[k].val)], 0)

\* lines 54-60: slot 0 of the new array.
InitialRecord(b) ==
    Record([k \in 1..3 |-> Fin(Whole(ToValue(b.p[k], len_unit)))],
           [k \in 1..3 |-> Fin(Whole(VelToValue(b.v[k], len_unit, time_unit)))],
           0)

\* lines 47-60: the array of n_steps records, zero but for slot 0.
\* Slot s of the array is pvt[s + 1].
NewPvt(b) == [s \in 1..n_steps |-> IF s = 1 THEN InitialRecord(b) ELSE ZeroRecord]

\* lines 62-65: the dict appended to self.objects.
NewObject(b) ==
    [name |-> b.name,
     mass |-> Whole(ToValue(b.m, mass_unit)),
     radius |-> Whole(ToValue(b.r, len_unit)),
     pvt |-> NewPvt(b)]

AddObject ==
    /\ phase = "idle"
    /\ Len(objects) < MaxObjects
    /\ \E b \in BodyInputs :
         /\ AddError(b) = "none"
         /\ WholeBody(b)
         /\ objects' = Append(objects, NewObject(b))
         /\ supplied' = Append(supplied, b)
    /\ processed' = Append(processed, {})
    /\ err' = "none"
    /\ snap' = NoSnap
    /\ UNCHANGED <<phase, dt, n_steps, maxtime, len_unit, time_unit, mass_unit,
                   G, i, oi, si, a, req, written, reads, terms, runs>>

AddObjectRaises ==
    /\ phase = "idle"
    /\ Len(objects) < MaxObjects
    /\ \E b \in BodyInputs :
         /\ AddError(b) # "none"
         /\ err' = AddError(b)
    /\ UNCHANGED <<phase, dt, n_steps, maxtime, len_unit, time_unit, mass_unit,
                   G, objects, i, oi, si, a, req, supplied, processed, written,
                   reads, terms, runs, snap>>

(***************************************************************************)
(* SimRun.run                                                              *)
(***************************************************************************)
Bodies == 1..Len(objects)

\* range(1, self.n_steps), line 71
FirstStep == 1

LastStep == n_steps - 1

\* Mutant of ReadSlot: the slot being computed is read.
ReadSlotCurrent(step) == step

\* The slot every read of step `step` takes: [i-1], lines 84, 93, 96.
ReadSlot(step) == step - 1

\* Mutant of WriteSlot: the results overwrite the slot they were read from.
WriteSlotPrevious(step) == step - 1

\* The slot the results of step `step` go to: [i], lines 93-99.
WriteSlot(step) == step

\* The record of body b at slot s.
Slot(b, s) == objects[b].pvt[s + 1]

\* line 79: obj == src, for the dicts at indices x and y of self.objects.
\* Dict equality compares the values key by key, in insertion order, and
\* takes an identical value as equal without comparing it.  The pvt arrays of
\* two different dicts are different arrays; comparing them gives an array of
\* n_steps booleans, whose truth value numpy refuses when it has more than one
\* element.  The result is "true", "false" or the exception raised.
DictEq(x, y) ==
    IF x = y THEN "true"
    ELSE IF objects[x].name # objects[y].name THEN "false"
    ELSE IF objects[x].mass # objects[y].mass THEN "false"
    ELSE IF objects[x].radius # objects[y].radius THEN "false"
    ELSE IF n_steps > 1 THEN "ValueError"
    ELSE IF objects[x].pvt = objects[y].pvt THEN "true"
    ELSE "false"

\* x / mag^3 truncated, for mag > 0, by three divisions.
OverCube(x, mag) == TDiv(TDiv(TDiv(x, mag), mag), mag)

\* lines 84-89: -G * mass * r / |r|^3 for r = p_obj - p_src.
\* A NaN in r makes r_mag and so every component NaN; r = 0 makes every
\* component 0/0.
AccelTerm(Gv, m, r) ==
    IF HasNaN(r) THEN NaNVec
    ELSE LET r_mag == ISqrt(r[1].v * r[1].v + r[2].v * r[2].v + r[3].v * r[3].v)
         IN  IF r_mag = 0 THEN NaNVec
             ELSE [k \in 1..3 |-> Fin(OverCube((-Gv) * m * r[k].v, r_mag))]

\* Mutant of NewPosition: the v*dt term left out.
NewPositionNoDrift(p, v, acc, d) == VAdd(p, VScale(VOver(acc, 2), d * d))

\* line 93
NewPosition(p, v, acc, d) ==
    VAdd(VAdd(p, VScale(v, d)), VScale(VOver(acc, 2), d * d))

\* line 96
NewVelocity(v, acc, d) == VAdd(v, VScale(acc, d))

\* Mutant of TimeStamp: the time of the slot read, not of the slot written.
TimeStampPrevious(d, step) == d * (step - 1)

\* line 99: self.dt * i
TimeStamp(d, step) == d * step

\* The history kept when a run() call ends.
SnapAfter(objs) ==
    IF snap.valid THEN [snap EXCEPT !.calls = @ + 1]
    ELSE [valid |-> TRUE, objs |-> objs, calls |-> 1]

\* run() with nothing to do: range(1, n_steps) is empty or there are no objects.
RunEmpty ==
    /\ phase = "idle"
    /\ runs < MaxRuns
    /\ (LastStep < FirstStep \/ objects = <<>>)
    /\ runs' = runs + 1
    /\ err' = "none"
    /\ written' = {}
    /\ reads' = {}
    /\ terms' = {}
    /\ snap' = SnapAfter(objects)
    /\ UNCHANGED <<phase, dt, n_steps, maxtime, len_unit, time_unit, mass_unit,
                   G, objects, i, oi, si, a, req, supplied, processed>>

\* run() enters its loops: lines 71, 74, 77.
RunBegin ==
    /\ phase = "idle"
    /\ runs < MaxRuns
    /\ LastStep >= FirstStep
    /\ objects # <<>>
    /\ phase' = "running"
    /\ err' = "none"
    /\ i' = FirstStep
    /\ oi' = 1
    /\ si' = 1
    /\ a' = ZeroVec
    /\ written' = {}
    /\ reads' = {}
    /\ terms' = {}
    /\ UNCHANGED <<dt, n_steps, maxtime, len_unit, time_unit, mass_unit, G,
                   objects, req, supplied, processed, runs, snap>>

\* lines 79-81: src is obj, continue.
RunSkip ==
    /\ phase = "running"
    /\ si <= Len(objects)
    /\ DictEq(oi, si) = "true"
    /\ si' = si + 1
    /\ UNCHANGED <<phase, err, dt, n_steps, maxtime, len_unit, time_unit,
                   mass_unit, G, objects, i, oi, a, req, supplied, processed,
                   written, reads, terms, runs, snap>>

\* line 79 raises: run() ends with the exception.
RunRaise ==
    /\ phase = "running"
    /\ si <= Len(objects)
    /\ DictEq(oi, si) = "ValueError"
    /\ phase' = "idle"
    /\ err' = "ValueError"
    /\ runs' = runs + 1
    /\ snap' = SnapAfter(objects)
    /\ i' = 0
    /\ oi' = 0
    /\ si' = 0
    /\ a' = <<>>
    /\ UNCHANGED <<dt, n_steps, maxtime, len_unit, time_unit, mass_unit, G,
                   objects, req, supplied, processed, written, reads, terms>>

\* lines 84-89: the term of one source.
RunAccumulate ==
    /\ phase = "running"
    /\ si <= Len(objects)
    /\ DictEq(oi, si) = "false"
    /\ LET r == VSub(Slot(oi, ReadSlot(i)).p, Slot(si, ReadSlot(i)).p)
       IN  a' = VAdd(a, AccelTerm(G, objects[si].mass, r))
    /\ reads' = reads \cup {<<i, oi, ReadSlot(i)>>, <<i, si, ReadSlot(i)>>}
    /\ terms' = terms \cup {<<i, oi, si>>}
    /\ si' = si + 1
    /\ UNCHANGED <<phase, err, dt, n_steps, maxtime, len_unit, time_unit,
                   mass_unit, G, objects, i, oi, req, supplied, processed,
                   written, runs, snap>>

\* lines 93-99: the new record of obj, then the next obj, the next step, or
\* the end of run().
RunCommit ==
    /\ phase = "running"
    /\ si > Len(objects)
    /\ LET prev == Slot(oi, ReadSlot(i))
           rec == Record(NewPosition(prev.p, prev.v, a, dt.val),
                         NewVelocity(prev.v, a, dt.val),
                         TimeStamp(dt.val, i))
           objs == [objects EXCEPT ![oi].pvt[WriteSlot(i) + 1] = rec]
       IN  /\ objects' = objs
           /\ IF oi < Len(objects)
              THEN /\ oi' = oi + 1
                   /\ si' = 1
                   /\ a' = ZeroVec
                   /\ UNCHANGED <<phase, i, runs, snap>>
              ELSE IF i < LastStep
              THEN /\ i' = i + 1
                   /\ oi' = 1
                   /\ si' = 1
                   /\ a' = ZeroVec
                   /\ UNCHANGED <<phase, runs, snap>>
              ELSE /\ phase' = "idle"
                   /\ runs' = runs + 1
                   /\ snap' = SnapAfter(objs)
                   /\ i' = 0
                   /\ oi' = 0
                   /\ si' = 0
                   /\ a' = <<>>
    /\ processed' = [processed EXCEPT ![oi] = @ \cup {i}]
    /\ written' = written \cup {<<oi, WriteSlot(i)>>}
    /\ reads' = reads \cup {<<i, oi, ReadSlot(i)>>}
    /\ UNCHANGED <<err, dt, n_steps, maxtime, len_unit, time_unit, mass_unit, G,
                   req, supplied, terms>>

Next ==
    \/ Construct
    \/ ConstructRaises
    \/ AddObject
    \/ AddObjectRaises
    \/ RunEmpty
    \/ RunBegin
    \/ RunSkip
    \/ RunRaise
    \/ RunAccumulate
    \/ RunCommit

Spec == Init /\ [][Next]_vars

(***************************************************************************)
(* Properties                                                              *)
(***************************************************************************)
Constructed == phase \in {"idle", "running"}

\* The constructor was given dt > 0 and maxtime >= 0 and returned.
ValidRequest == Constructed /\ req.dt.val > 0 /\ req.maxtime.val >= 0

\* A run() call has ended since the last add_object.
RunEnded == phase = "idle" /\ snap.valid

Steps == FirstStep..LastStep

\* C1 as stated: for dt > 0 and maxtime >= 0, maxtime = 0 included, n_steps is
\* at least 2.
C1_StepCountAtLeastTwo == ValidRequest => n_steps >= 2

\* C1 amended: for dt > 0 and maxtime >= 0, n_steps is at least 1; it is at
\* least 2 when maxtime > 0 and exactly 1 when maxtime = 0.
C1_StepCountAtLeastOne ==
    ValidRequest =>
        /\ n_steps >= 1
        /\ req.maxtime.val > 0 => n_steps >= 2
        /\ req.maxtime.val = 0 => n_steps = 1

C1_Witness == ValidRequest /\ req.maxtime.val = 0 /\ n_steps = 1

\* C2: for dt > 0 and maxtime >= 0, n_steps - 1 is ceil(maxtime/dt), the
\* least whole number of steps of dt that cover the requested maxtime; the
\* exposed maxtime is dt * (n_steps - 1) and not less than the requested one;
\* dt = 1 s and maxtime = 10 s give n_steps = 11 and maxtime = 10 s.
C2_MaxtimeCoversRequest ==
    ValidRequest =>
        /\ (n_steps - 1) * InBase(req.dt) >= InBase(req.maxtime)
        /\ (n_steps - 2) * InBase(req.dt) < InBase(req.maxtime)
        /\ InBase(maxtime) = InBase(dt) * (n_steps - 1)
        /\ InBase(maxtime) >= InBase(req.maxtime)
        /\ (req.dt = Quantity(1, "s") /\ req.maxtime = Quantity(10, "s"))
               => (n_steps = 11 /\ maxtime = Quantity(10, "s"))

C2_Witness ==
    /\ ValidRequest
    /\ req.dt = Quantity(2, "s")
    /\ req.maxtime = Quantity(3, "s")
    /\ n_steps = 3
    /\ maxtime = Quantity(4, "s")

\* C3: with exactly one body registered, the accumulated acceleration is zero
\* throughout run(), and every slot i that run() has filled holds the position
\* p[0] + v[0]*dt*i and the velocity v[0]; when run() has ended every slot
\* 1..n_steps-1 is filled.
C3_SingleBodyLinear ==
    Len(objects) = 1 =>
        /\ phase = "running" => a = ZeroVec
        /\ \A s \in processed[1] :
             /\ Slot(1, s).p = VAdd(Slot(1, 0).p, VScale(Slot(1, 0).v, dt.val * s))
             /\ Slot(1, s).v = Slot(1, 0).v
        /\ RunEnded => processed[1] = Steps

C3_Witness ==
    /\ Len(objects) = 1
    /\ RunEnded
    /\ dt = Quantity(1, "s")
    /\ req.maxtime = Quantity(10, "s")
    /\ Slot(1, 0).p = Vec(0, 0, 0)
    /\ Slot(1, 0).v = Vec(1, 0, 0)
    /\ Slot(1, 10).p = Vec(10, 0, 0)
    /\ Slot(1, 10).v = Vec(1, 0, 0)

\* C4: in every state from its registration on, slot 0 of every body holds the
\* position and velocity given to add_object (as quantities: the stored
\* numbers, in the simulation's units, are the given numbers in theirs) and
\* time 0, whether run() has not been called, is in progress, or has ended.
C4_SlotZeroIsInitial ==
    \A b \in Bodies :
        /\ Slot(b, 0).t = 0
        /\ \A k \in 1..3 :
             /\ ~Slot(b, 0).p[k].nan
             /\ Slot(b, 0).p[k].v * UnitScale(len_unit) = InBase(supplied[b].p[k])
             /\ ~Slot(b, 0).v[k].nan
             /\ Slot(b, 0).v[k].v * UnitScale(len_unit) * UnitScale(supplied[b].v[k].per)
                    = supplied[b].v[k].val * UnitScale(supplied[b].v[k].unit)
                          * UnitScale(time_unit)

C4_Witness ==
    /\ phase = "running"
    /\ time_unit = "min"
    /\ \E b \in Bodies :
         /\ supplied[b].name = "probe"
         /\ 1 \in processed[b]
         /\ Slot(b, 0).v = Vec(60, 0, 0)
    /\ \E b \in Bodies :
         /\ supplied[b].name = "far"
         /\ Slot(b, 0).p = Vec(1000, 0, 0)

\* C5 as stated: a constructor call with dt <= 0 is reported as an error by the
\* constructor; no SimRun with dt <= 0 is ever constructed.
C5_NonPositiveDtRejected ==
    (phase # "new" /\ req.dt.val <= 0) => phase = "failed"
\* C6: step barrier.  Every read that run() makes while computing step k, of
\* obj or of a source, is of slot k-1, never of slot k, and that slot was
\* committed before (at registration for slot 0, earlier in this run()
\* otherwise); when a slot k is written, slot k-1 of every body has been
\* committed.
C6_StepBarrier ==
    /\ \A rd \in reads :
         /\ rd[3] = rd[1] - 1
         /\ rd[3] = 0 \/ <<rd[2], rd[3]>> \in written
    /\ (phase = "running" \/ RunEnded) =>
         \A w \in written :
             \A c \in Bodies : w[2] = 1 \/ <<c, w[2] - 1>> \in written

\* Body 2 reads slot i-1 of body 1 while body 1 has already committed slot i.
C6_Witness ==
    /\ phase = "running"
    /\ i >= 2
    /\ oi = 2
    /\ <<1, i>> \in written
    /\ <<i, 1, i - 1>> \in reads
    /\ <<2, i>> \notin written

\* C7: in every state, for every body and every index i in 0..n_steps-1: if
\* i = 0 or run() has processed step i for the body, the record's time is
\* i*dt; otherwise the record's position, velocity and time are all zero.
C7_TimeStampOrZero ==
    \A b \in Bodies :
        \A s \in 0..(n_steps - 1) :
            IF s = 0 \/ s \in processed[b]
            THEN Slot(b, s).t = s * dt.val
            ELSE Slot(b, s) = ZeroRecord

C7_Witness ==
    /\ phase = "running"
    /\ dt.val = 2
    /\ n_steps > 3
    /\ 2 \in processed[1]
    /\ Slot(1, 2).t = 4
    /\ 3 \notin processed[1]
    /\ Slot(1, 3) = ZeroRecord

\* C8 as stated: self-exclusion is by identity.  When run() has ended, having
\* had steps to take, every body has every step committed, with exactly one
\* term from every other body and none from itself, also when two bodies have
\* the same name, mass and radius.
C8_SelfExclusionByIdentity ==
    (RunEnded /\ Steps # {}) =>
        \A b \in Bodies :
            \A s \in Steps :
                /\ <<b, s>> \in written
                /\ \A c \in Bodies : (<<s, b, c>> \in terms) <=> (c # b)

\* C9 as stated: when two distinct bodies have equal positions in slot i-1,
\* run() raises nothing and runs on to the last step, and slot i and every
\* later slot of both bodies hold NaN.
C9_CoincidentBodiesNotDetected ==
    (RunEnded /\ Steps # {}) =>
        \A b, c \in Bodies :
            \A s \in Steps :
                (/\ b # c
                 /\ ~HasNaN(Slot(b, s - 1).p)
                 /\ Slot(b, s - 1).p = Slot(c, s - 1).p)
                    => /\ err = "none"
                       /\ \A t \in s..LastStep :
                            /\ t \in processed[b]
                            /\ Slot(b, t).p = NaNVec
                            /\ Slot(b, t).v = NaNVec

\* C10: a second run() call, with no add_object since the first, leaves every
\* slot of every trajectory as the first call left it.
C10_RunIdempotent == RunEnded => objects = snap.objs

C10_Witness ==
    /\ RunEnded
    /\ snap.calls >= 2
    /\ Len(objects) >= 2
    /\ err = "none"
    /\ n_steps > 3
    /\ \E b \in Bodies :
         /\ ~HasNaN(Slot(b, 3).p)
         /\ Slot(b, 3).p # Slot(b, 0).p
         /\ Slot(b, 3).v # Slot(b, 0).v
====
